---------------------------- MODULE Spec2Model ----------------------------
(***************************************************************************)
(* Isometric kitchen scene (assets/js/main.js): component tagging          *)
(* (createComponent), scene construction (buildKitchenette), pick          *)
(* resolution and the info panel (onMouseClick, displayComponentInfo,      *)
(* hideComponentInfo), the resize handler (onWindowResize), the render     *)
(* loop (animate) and start-up (window.onload, init).                      *)
(*                                                                         *)
(* The scene graph is a tree of nodes.  Each node has a parent, a          *)
(* visibility flag, a userData bag and a flag telling whether it carries   *)
(* geometry (THREE.Mesh) or not (THREE.Scene, THREE.Group, lights).        *)
(* Raycaster.intersectObjects is the three.js r128 library routine: it     *)
(* returns the intersections of the ray with every mesh below the given    *)
(* roots, sorted by ascending distance.  It tests layers only and never    *)
(* reads Object3D.visible, and main.js applies no visibility test of its   *)
(* own, so every mesh of the tree may appear in the list.  The geometry of *)
(* the ray is not modelled: the list is an input of the click.             *)
(***************************************************************************)
EXTENDS Integers, Sequences, FiniteSets, TLC

VARIABLES
  scene,        \* the scene tree: [nodes, parent, visible, isMesh, userData]
  panelVisible, \* infoPanel.classList contains 'visible'
  detailName,   \* detailName.textContent
  detailDesc,   \* detailDesc.textContent
  detailSpecs,  \* detailSpecs.textContent
  rayHits,      \* what raycaster.intersectObjects returned to the last click
  picked,       \* the userData the last click resolved to, or NoPick
  details,      \* createComponent: the details payload of the call
  args,         \* createComponent: the geometry, position and name of the call
  mesh,         \* createComponent: the returned mesh's userData, or NoPick
  window,       \* the host's window: [innerWidth, innerHeight]
  size,         \* the constants width and height (lines 5-6)
  camera,       \* the orthographic camera: [left, right, top, bottom]
  renderer,     \* the size given to renderer.setSize: [width, height]
  mouse,        \* the Vector2 mouse: [x, y]
  frames,       \* animation-frame callbacks that are requested and not yet run
  lastFrame,    \* what the last renderer.render(scene, camera) was given
  lastEvent,    \* the event the last handler was called with
  prevClick,    \* what the click before the last one was and resolved to
  rayOf,        \* the intersections of the ray through every point (SpecTwoClicks)
  pc            \* position of the process of the specification

vars == <<scene, panelVisible, detailName, detailDesc, detailSpecs,
          rayHits, picked, details, args, mesh, window, size, camera,
          renderer, mouse, frames, lastFrame, lastEvent, prevClick, rayOf, pc>>

\* the info panel's state
panel == <<panelVisible, detailName, detailDesc, detailSpecs>>

\* the camera, the renderer and the render loop
view == <<camera, renderer, frames, lastFrame>>

\* the arguments and the result of a call of createComponent
call == <<details, args, mesh>>

---------------------------------------------------------------------------
(* JavaScript values: undefined, null, strings, booleans and the details   *)
(* payload object.                                                         *)

Undefined == [t |-> "undefined"]

Null == [t |-> "null"]

Str(s) == [t |-> "string", v |-> s]

Bool(b) == [t |-> "boolean", v |-> b]

\* x ?? y
Nullish(x) == x.t \in {"undefined", "null"}

Coalesce(x, y) == IF Nullish(x) THEN y ELSE x

\* ToBoolean(x), for the values above
Truthy(x) ==
  CASE x.t = "string" -> x.v # ""
    [] x.t = "boolean" -> x.v
    [] OTHER -> FALSE

\* x || y
Or(x, y) == IF Truthy(x) THEN x ELSE y

\* details?.field
OptGet(obj, field) == IF Nullish(obj) THEN Undefined ELSE obj[field]

\* an object literal { description: .., desc: .., specs: .. }; a property
\* that is left out reads as undefined
Payload(description, desc, specs) ==
  [t |-> "object", description |-> description, desc |-> desc, specs |-> specs]

\* Object3D.userData = {} : every property reads as undefined
EmptyUserData ==
  [isComponent |-> Undefined, name |-> Undefined,
   details |-> Undefined, specs |-> Undefined]

\* the value of a click that resolved to nothing
NoPick == [none |-> TRUE]

\* parent of a node that has not been added to anything (null)
NoParent == "null"

---------------------------------------------------------------------------
(* JavaScript numbers.  The program divides client coordinates by window   *)
(* sizes; the quotients are kept exactly, as fractions in lowest terms     *)
(* with a positive denominator.  The window sizes of the model are         *)
(* positive, so no division by zero occurs.                                *)

RECURSIVE GCD(_, _)
GCD(a, b) == IF b = 0 THEN a ELSE GCD(b, a % b)

Abs(a) == IF a < 0 THEN -a ELSE a

\* the number n / d, d # 0
Frac(n, d) ==
  LET g == GCD(Abs(n), Abs(d))
      sign == IF d < 0 THEN -1 ELSE 1
  IN [n |-> (sign * n) \div g, d |-> (sign * d) \div g]

Num(k) == Frac(k, 1)

\* a + b, a * b, -a, a / b
Plus(a, b) == Frac(a.n * b.d + b.n * a.d, a.d * b.d)

Times(a, b) == Frac(a.n * b.n, a.d * b.d)

Minus(a) == Frac(-a.n, a.d)

Over(a, b) == Frac(a.n * b.d, a.d * b.n)

\* a < b
Less(a, b) == a.n * b.d < b.n * a.d

---------------------------------------------------------------------------
(* createComponent, main.js lines 21-36                                    *)

\* lines 27-34: the userData attached to the mesh
ComponentUserData_OrChain(name, d) ==
  [isComponent |-> Bool(TRUE),
   name |-> name,
   details |-> Or(OptGet(d, "description"), Or(OptGet(d, "desc"), Str(""))),
   specs |-> Coalesce(OptGet(d, "specs"), Str(""))]

ComponentUserData_NoSpecsDefault(name, d) ==
  [isComponent |-> Bool(TRUE),
   name |-> name,
   details |-> Coalesce(OptGet(d, "description"),
                        Coalesce(OptGet(d, "desc"), Str(""))),
   specs |-> OptGet(d, "specs")]

ComponentUserData(name, d) ==
  [isComponent |-> Bool(TRUE),
   name |-> name,
   details |-> Coalesce(OptGet(d, "description"),
                        Coalesce(OptGet(d, "desc"), Str(""))),
   specs |-> Coalesce(OptGet(d, "specs"), Str(""))]

\* new THREE.Mesh(geometry, material): visible, no parent, userData = {}
Mesh(id) ==
  [id |-> id, parent |-> NoParent, visible |-> TRUE, isMesh |-> TRUE,
   userData |-> EmptyUserData]

\* new THREE.Group() / new THREE.Scene() / a light: no geometry
Object3D(id) ==
  [id |-> id, parent |-> NoParent, visible |-> TRUE, isMesh |-> FALSE,
   userData |-> EmptyUserData]

createComponent(id, name, d) ==
  [Mesh(id) EXCEPT !.userData = ComponentUserData(name, d)]

\* a geometry, a material or a Vector3
Object == [t |-> "object"]

\* the outcome of a call that raised a TypeError
Threw == [threw |-> "TypeError"]

\* line 22: new THREE.Mesh(geometry, material) replaces an undefined
\* geometry by a default one and reads geometry.isBufferGeometry, which
\* throws for null.  Line 23: mesh.position.copy(position) reads position.x,
\* which throws for null and undefined.
MeshThrows(geometry) == geometry = Null

CopyThrows(position) == Nullish(position)

\* createComponent(geometry, material, position, name, details): the
\* userData of the mesh it returns, or Threw
createComponentCall(a, d) ==
  IF MeshThrows(a.geometry) \/ CopyThrows(a.position)
    THEN Threw
    ELSE createComponent("mesh", a.name, d).userData

\* parent.add(child)
Add(parentId, child) == [child EXCEPT !.parent = parentId]

\* scene.add(child)
SceneAdd(child) == Add("scene", child)

\* { description: .., specs: .. } and { desc: .., specs: .. }
WithDescription(description, specs) ==
  Payload(Str(description), Undefined, Str(specs))

WithDesc(desc, specs) == Payload(Undefined, Str(desc), Str(specs))

---------------------------------------------------------------------------
(* buildKitchenette, main.js lines 134-1015.  Every function returns the   *)
(* set of nodes it creates.  A loop that creates several meshes from one   *)
(* expression (panes, wine-rack holes, legs, burner rings, ...) is         *)
(* represented by one node: the meshes of a loop have the same parent, the *)
(* same visibility and the same empty userData.                            *)

\* group.userData = component.userData (lines 445, 631, 796, 868, 905, 937)
CopyUserData_Skipped(group, component) == group

CopyUserData_NameOnly(group, component) ==
  [group EXCEPT !.userData =
     [EmptyUserData EXCEPT !.name = component.userData.name]]

CopyUserData(group, component) ==
  [group EXCEPT !.userData = component.userData]

\* scene.add(f()) for a function f that returns its group
AddGroupToScene(created, groupId) ==
  {IF n.id = groupId THEN SceneAdd(n) ELSE n : n \in created}

\* lines 413-448
createWindow ==
  LET group == Object3D("window")
      mainFrame == Add("window", Mesh("window.mainFrame"))
      pane == Add("window.mainFrame", Mesh("window.pane"))
      windowComponent ==
        [createComponent("windowComponent", Str("Large Kitchen Window"),
           WithDescription(
             "Multi-pane crittall-style window providing ample natural light.",
             "Dimensions: 2.5 x 4.0 units | Frame: Light Blue Steel"))
         EXCEPT !.visible = FALSE]
  IN {CopyUserData(group, windowComponent),
      mainFrame, pane, SceneAdd(windowComponent)}

\* lines 597-633: the anonymous function that builds the water purifier
createPurifier ==
  LET purifier == Object3D("purifier")
      parts == {Add("purifier", Mesh(id)) :
                  id \in {"purifier.body", "purifier.band", "purifier.tank",
                          "purifier.nozzle", "purifier.tray"}}
      purifierComponent ==
        [createComponent("purifierComponent", Str("Water Purifier"),
           WithDesc("Wall-mounted RO water purifier with translucent tank.",
                    "Body: White | Accent: Navy | Tank: Aqua"))
         EXCEPT !.visible = FALSE]
  IN {SceneAdd(CopyUserData(purifier, purifierComponent)),
      SceneAdd(purifierComponent)} \cup parts

\* lines 759-800
createIsland ==
  LET group == Object3D("island")
      islandBody == Add("island", Mesh("island.islandBody"))
      islandCounter == Add("island.islandBody", Mesh("island.islandCounter"))
      hole == Add("island.islandBody", Mesh("island.hole"))
      board == SceneAdd(Mesh("board"))
      islandComponent ==
        [createComponent("islandComponent", Str("Kitchen Island"),
           WithDescription(
             "Small kitchen island with integrated wine rack and dining space.",
             "Dimensions: 1.0 x 1.4 x 2.0 units"))
         EXCEPT !.visible = FALSE]
  IN {CopyUserData(group, islandComponent),
      islandBody, islandCounter, hole, board, SceneAdd(islandComponent)}

\* lines 830-873; g names the stool (the source passes its position)
createBarStool(g) ==
  LET group == Object3D(g)
      parts == {Add(g, Mesh(g \o part)) :
                  part \in {".seat", ".leg", ".ring", ".cap"}}
      stoolComponent ==
        [createComponent(g \o "Component", Str("Bar Stool"),
           WithDescription(
             "Round wood seat with black metal legs and chrome footrest.",
             "Seat: Light wood | Legs: Black | Footrest: Chrome"))
         EXCEPT !.visible = FALSE]
  IN {CopyUserData(group, stoolComponent),
      SceneAdd(stoolComponent)} \cup parts

\* lines 878-909
createDiningTable ==
  LET group == Object3D("diningTable")
      parts == {Add("diningTable", Mesh(id)) :
                  id \in {"diningTable.tableTop", "diningTable.leg"}}
      tableComponent ==
        [createComponent("tableComponent", Str("Dining Table"),
           WithDescription("Rectangular dining table seating six.",
                           "Seats: 6 | Top: Wood | Legs: Dark wood"))
         EXCEPT !.visible = FALSE]
  IN {CopyUserData(group, tableComponent),
      SceneAdd(tableComponent)} \cup parts

\* lines 911-941; g names the chair (head, foot, leftNear, ...)
createDiningChair(g) ==
  LET group == Object3D(g)
      parts == {Add(g, Mesh(g \o part)) : part \in {".seat", ".back", ".leg"}}
      chairComponent ==
        [createComponent(g \o "Component", Str("Dining Chair"),
           WithDescription("Simple chair for dining table.",
                           "Material: Wood + cushion top"))
         EXCEPT !.visible = FALSE]
  IN {CopyUserData(group, chairComponent),
      SceneAdd(chairComponent)} \cup parts

\* setupLighting, lines 102-129
setupLighting ==
  {SceneAdd(Object3D(id)) : id \in {"ambientLight", "sunLight", "fillLight"}}

\* the meshes of buildKitchenette that are created with new THREE.Mesh and
\* added to the scene directly (lines 333-362, 478-512, 531-566, 578-593,
\* 641-672, 688-708, 717-754)
PlainSceneMeshes ==
  {SceneAdd(Mesh(id)) : id \in
     {"floor", "backWall", "leftWall", "wainscot", "chairRail", "baseboard",
      "tilingBack", "tilingSide", "decorSink", "trimSinkTop", "trimSinkBottom",
      "decorCook", "trimCookTop", "trimCookBottom", "colorBand",
      "ring", "pan", "chimney", "ovenGlass", "ovenHandle",
      "leftDoor", "rightDoor", "handleL", "handleR", "underLight",
      "carafe", "carafeBase", "carafeLid", "carafeHandle", "cmSpout", "tray",
      "bar", "cmDisplay", "btn",
      "sinkOuter", "sinkBasin", "sinkWater", "tapBase", "tapNeck", "tapSpout",
      "kettleLid", "kettleHandle", "holder", "utensil", "bowl", "fruit"}}

\* the meshes created with createComponent and added to the scene directly
\* (lines 462-472, 519-559, 569, 636, 712-716)
ComponentMeshes ==
  {SceneAdd(createComponent("baseCabinetBack", Str("Back Base Cabinets"),
                            WithDesc("Base cabinets.", "Color: Dark Slate"))),
   SceneAdd(createComponent("counterBack", Str("Back Countertop (Granite)"),
                            WithDesc("Granite countertop.", "Finish: Polished Granite"))),
   SceneAdd(createComponent("baseCabinetSide", Str("Side Base Cabinets"),
                            WithDesc("Base cabinets.", "Color: Dark Slate"))),
   SceneAdd(createComponent("counterSide", Str("Side Countertop (Granite)"),
                            WithDesc("Granite countertop.", "Finish: Polished Granite"))),
   SceneAdd(createComponent("cooktop", Str("Induction Cooktop"),
                            WithDescription("Four-burner induction cooktop.", "Power: Induction"))),
   SceneAdd(createComponent("hood", Str("Range Hood"),
                            WithDescription("Ventilation hood.", "Material: Stainless Steel"))),
   SceneAdd(createComponent("oven", Str("Built-in Oven"),
                            WithDescription("Stainless front oven under cooktop.",
                                            "Finish: Brushed Steel"))),
   SceneAdd(createComponent("upperCabinet1", Str("Upper Cabinet"),
                            WithDesc("Two-tone scheme", "Color: Warm White"))),
   SceneAdd(createComponent("coffeeMaker", Str("Coffee Maker"),
                            WithDesc("", "Color: Black"))),
   SceneAdd(createComponent("toaster", Str("Toaster"),
                            WithDesc("Two-slice toaster.", "Color: Yellow"))),
   SceneAdd(createComponent("kettle", Str("Kettle"),
                            WithDesc("Electric kettle.", "Color: Blue")))}

\* the two untagged groups (lines 676-683, 726-734)
PlainGroups ==
  {SceneAdd(Object3D("clutterGroup")), Add("clutterGroup", Mesh("clutterGroup.can")),
   SceneAdd(Object3D("spiceGroup")), Add("spiceGroup", Mesh("spiceGroup.jar"))}

\* the names under which lines 874-875 and 978-990 create stools and chairs
BarStools == {"barStool1", "barStool2"}

DiningChairs == {"head", "foot", "leftNear", "leftFar", "rightNear", "rightFar"}

buildKitchenette ==
  PlainSceneMeshes \cup ComponentMeshes \cup PlainGroups
    \cup AddGroupToScene(createWindow, "window")
    \cup createPurifier
    \cup AddGroupToScene(createIsland, "island")
    \cup UNION {AddGroupToScene(createBarStool(g), g) : g \in BarStools}
    \cup AddGroupToScene(createDiningTable, "diningTable")
    \cup UNION {AddGroupToScene(createDiningChair(g), g) : g \in DiningChairs}

\* the tree made of a set of created nodes
TreeOf(created) ==
  LET ids == {n.id : n \in created}
      node(i) == CHOOSE n \in created : n.id = i
  IN [nodes |-> ids,
      parent |-> [i \in ids |-> node(i).parent],
      visible |-> [i \in ids |-> node(i).visible],
      isMesh |-> [i \in ids |-> node(i).isMesh],
      userData |-> [i \in ids |-> node(i).userData]]

\* init, lines 41-97: the scene after setupLighting and buildKitchenette
BuiltScene == TreeOf({Object3D("scene")} \cup setupLighting \cup buildKitchenette)

---------------------------------------------------------------------------
(* Bounds of the model                                                     *)

\* nodes below the root in the trees SpecPick draws
MaxNodes == 3

\* intersections a ray of SpecPick returns at most
MaxHits == 2

\* distances of the intersections of SpecPick: 1..MaxDist
MaxDist == 2

\* intersections a ray through the built scene returns at most (SpecScene)
MaxSceneHits == 1

\* intersections a ray of Spec returns at most
MaxClickHits == 2

\* strings a details payload of SpecComponent may hold
Strings == {"", "Electric kettle.", "Two-slice toaster."}

---------------------------------------------------------------------------
(* Raycaster.intersectObjects(scene.children, true), main.js line 1027     *)

\* the objects a ray can intersect: the meshes below the scene, whatever
\* their visibility flag
Meshes(tree) == {n \in tree.nodes : tree.isMesh[n]}

\* an intersection is { distance, object }; the list is sorted by distance
SortedByDistance(list) ==
  \A i \in 1..(Len(list) - 1) : list[i].distance <= list[i + 1].distance

\* all lists of at most maxLen intersections with the given objects at
\* distances 1..maxDistance
RayCasts(objects, maxLen, maxDistance) ==
  {list \in UNION {[1..n -> [distance : 1..maxDistance, object : objects]] :
                     n \in 0..maxLen} : SortedByDistance(list)}

\* the lists in which the k-th intersection lies at distance k
RankedRayCasts(objects, maxLen) ==
  UNION {{[i \in 1..n |-> [distance |-> i, object |-> struck[i]]] :
            struck \in [1..n -> objects]} : n \in 0..maxLen}

---------------------------------------------------------------------------
(* onMouseClick, main.js lines 1019-1037                                   *)

IsComponent(tree, n) == Truthy(tree.userData[n].isComponent)

\* line 1028: the predicate of the filter
FilterTest_OwnTagOnly(tree, i) == IsComponent(tree, i.object)

FilterTest_NoTest(tree, i) == TRUE

FilterTest_AnyAncestor(tree, i) ==
  LET RECURSIVE tagged(_)
      tagged(n) == IF n = NoParent THEN FALSE
                   ELSE IsComponent(tree, n) \/ tagged(tree.parent[n])
  IN tagged(i.object)

FilterTest(tree, i) ==
  \/ IsComponent(tree, i.object)
  \/ /\ tree.parent[i.object] # NoParent
     /\ IsComponent(tree, tree.parent[i.object])

\* lines 1027-1028: raycaster.intersectObjects(...).filter(...)
FilteredIntersects(tree, list) ==
  LET test(i) == FilterTest(tree, i) IN SelectSeq(list, test)

\* lines 1031-1032: the userData of intersects[0]
ResolveUserData_ParentFirst(tree, object) ==
  IF tree.parent[object] # NoParent /\ IsComponent(tree, tree.parent[object])
    THEN tree.userData[tree.parent[object]]
    ELSE tree.userData[object]

ResolveUserData(tree, object) ==
  IF IsComponent(tree, object)
    THEN tree.userData[object]
    ELSE tree.userData[tree.parent[object]]

\* lines 1027-1036: the userData passed to displayComponentInfo, or NoPick
\* when hideComponentInfo is called
PickResolution_FirstHitOnly(tree, list) ==
  IF Len(list) > 0 /\ FilterTest(tree, list[1])
    THEN ResolveUserData(tree, list[1].object)
    ELSE NoPick

PickResolution(tree, list) ==
  LET intersects == FilteredIntersects(tree, list)
  IN IF Len(intersects) > 0
       THEN ResolveUserData(tree, intersects[1].object)
       ELSE NoPick

\* a string value as text; the model holds no other truthy value in a tag
Text(x) == x.v

\* displayComponentInfo, lines 1040-1042: the three texts written to the
\* panel.  No userData of the program has a desc property, so data.desc
\* reads as undefined.
DisplayedText_NoPrefix(data) ==
  [name |-> Text(Or(data.name, Str("Component"))),
   desc |-> Text(Or(data.details, Or(Undefined, Str("")))),
   specs |-> Text(Or(data.specs, Str("")))]

\* ?? in place of ||
DisplayedText_Coalesce(data) ==
  [name |-> Text(Coalesce(data.name, Str("Component"))),
   desc |-> Text(Coalesce(data.details, Coalesce(Undefined, Str("")))),
   specs |-> "Specifications: " \o Text(Coalesce(data.specs, Str("")))]

DisplayedText(data) ==
  [name |-> Text(Or(data.name, Str("Component"))),
   desc |-> Text(Or(data.details, Or(Undefined, Str("")))),
   specs |-> "Specifications: " \o Text(Or(data.specs, Str("")))]

\* displayComponentInfo, lines 1039-1044
displayComponentInfo_Toggle(data) ==
  /\ detailName' = DisplayedText(data).name
  /\ detailDesc' = DisplayedText(data).desc
  /\ detailSpecs' = DisplayedText(data).specs
  /\ panelVisible' = ~panelVisible

\* shows the tag of the click before, when there was one
displayComponentInfo_Deferred(data) ==
  LET shown == IF picked # NoPick THEN picked ELSE data
  IN /\ detailName' = DisplayedText(shown).name
     /\ detailDesc' = DisplayedText(shown).desc
     /\ detailSpecs' = DisplayedText(shown).specs
     /\ panelVisible' = TRUE

\* leaves the name of the tag shown before in place
displayComponentInfo_StaleName(data) ==
  /\ detailName' = IF picked # NoPick THEN detailName
                                      ELSE DisplayedText(data).name
  /\ detailDesc' = DisplayedText(data).desc
  /\ detailSpecs' = DisplayedText(data).specs
  /\ panelVisible' = TRUE

displayComponentInfo(data) ==
  /\ detailName' = DisplayedText(data).name
  /\ detailDesc' = DisplayedText(data).desc
  /\ detailSpecs' = DisplayedText(data).specs
  /\ panelVisible' = TRUE

\* hideComponentInfo, lines 1046-1048
hideComponentInfo_Noop ==
  UNCHANGED <<panelVisible, detailName, detailDesc, detailSpecs>>

\* empties the three fields as well
hideComponentInfo_ClearsTexts ==
  /\ panelVisible' = FALSE
  /\ detailName' = ""
  /\ detailDesc' = ""
  /\ detailSpecs' = ""

hideComponentInfo ==
  /\ panelVisible' = FALSE
  /\ UNCHANGED <<detailName, detailDesc, detailSpecs>>

\* lines 1021-1022: the click's position in normalized device coordinates
MouseNDC_NoFlip(event, win) ==
  [x |-> Plus(Times(Over(Num(event.clientX), Num(win.innerWidth)), Num(2)),
              Num(-1)),
   y |-> Plus(Times(Over(Num(event.clientY), Num(win.innerHeight)), Num(2)),
              Num(-1))]

MouseNDC(event, win) ==
  [x |-> Plus(Times(Over(Num(event.clientX), Num(win.innerWidth)), Num(2)),
              Num(-1)),
   y |-> Plus(Times(Minus(Over(Num(event.clientY), Num(win.innerHeight))),
                    Num(2)),
              Num(1))]

\* line 1024: raycaster.setFromCamera(mouse, camera) is called after mouse
\* has been written, so the ray goes through the click's own point
RayPoint_BeforeUpdate(event, win) == mouse

RayPoint(event, win) == MouseNDC(event, win)

\* the handler, given the event and what the raycaster returned for the ray
\* through RayPoint(event, window)
onMouseClick_CachesTag(event, list) ==
  /\ mouse' = MouseNDC(event, window)
  /\ picked' = PickResolution(scene, list)
  /\ IF picked' # NoPick
       THEN displayComponentInfo(picked')
       ELSE hideComponentInfo
  /\ scene' = IF picked' # NoPick
                THEN [scene EXCEPT
                        !.userData[FilteredIntersects(scene, list)[1].object] = picked']
                ELSE scene

\* the tree without a node
Removed(tree, n) ==
  LET rest == tree.nodes \ {n}
  IN [nodes |-> rest,
      parent |-> [i \in rest |-> tree.parent[i]],
      visible |-> [i \in rest |-> tree.visible[i]],
      isMesh |-> [i \in rest |-> tree.isMesh[i]],
      userData |-> [i \in rest |-> tree.userData[i]]]

onMouseClick_RemovesStruck(event, list) ==
  /\ mouse' = MouseNDC(event, window)
  /\ picked' = PickResolution(scene, list)
  /\ IF picked' # NoPick
       THEN displayComponentInfo(picked')
       ELSE hideComponentInfo
  /\ scene' = IF picked' # NoPick
                THEN Removed(scene, FilteredIntersects(scene, list)[1].object)
                ELSE scene

onMouseClick(event, list) ==
  /\ mouse' = MouseNDC(event, window)
  /\ picked' = PickResolution(scene, list)
  /\ IF picked' # NoPick
       THEN displayComponentInfo(picked')
       ELSE hideComponentInfo
  /\ UNCHANGED scene

---------------------------------------------------------------------------
(* The camera, the renderer and start-up: lines 5-11, init (41-97),        *)
(* onWindowResize (1053-1066), animate (1071-1079), window.onload          *)
(* (1082-1085).                                                            *)

frustumSize == 16

halfFrustum == frustumSize \div 2

\* lines 7 and 1056: width / height
Aspect(w, h) == Over(Num(w), Num(h))

\* lines 56-63 and 1059-1062: the bounds of the orthographic frustum
Frustum(aspect) ==
  [left |-> Times(Num(-halfFrustum), aspect),
   right |-> Times(Num(halfFrustum), aspect),
   top |-> Num(halfFrustum),
   bottom |-> Num(-halfFrustum)]

\* renderer.setSize(w, h)
SetSize(w, h) == [width |-> w, height |-> h]

\* new THREE.Vector2()
Vector2 == [x |-> Num(0), y |-> Num(0)]

\* init, lines 41-97.  init does not touch the info panel.
init_ShowsFirst ==
  /\ scene' = BuiltScene
  /\ renderer' = SetSize(size.width, size.height)
  /\ camera' = Frustum(Aspect(size.width, size.height))
  /\ mouse' = Vector2
  /\ displayComponentInfo(BuiltScene.userData["baseCabinetBack"])

init ==
  /\ scene' = BuiltScene
  /\ renderer' = SetSize(size.width, size.height)
  /\ camera' = Frustum(Aspect(size.width, size.height))
  /\ mouse' = Vector2
  /\ UNCHANGED panel

\* renderer.render(scene, camera): what the frame is drawn from
Rendered(cam, rnd) == [camera |-> cam, renderer |-> rnd]

\* animate, lines 1071-1079, run with the given number of other callbacks
\* pending: requests one callback and renders.  controls.update() moves
\* the camera's pose, which the model does not hold.
animate_NoRequest(pending) ==
  /\ frames' = pending
  /\ lastFrame' = Rendered(camera', renderer')

animate(pending) ==
  /\ frames' = pending + 1
  /\ lastFrame' = Rendered(camera', renderer')

\* onWindowResize, lines 1053-1066, the window having the given size
onWindowResize_StaleAspect(win) ==
  /\ camera' = Frustum(Aspect(size.width, size.height))
  /\ renderer' = SetSize(win.innerWidth, win.innerHeight)

\* returns before renderer.setSize
onWindowResize_CameraOnly(win) ==
  /\ camera' = Frustum(Aspect(win.innerWidth, win.innerHeight))
  /\ renderer' = renderer

onWindowResize(win) ==
  /\ camera' = Frustum(Aspect(win.innerWidth, win.innerHeight))
  /\ renderer' = SetSize(win.innerWidth, win.innerHeight)

\* the events the handlers are called with
LoadEvent == [type |-> "load"]

ResizeEvent == [type |-> "resize"]

FrameEvent == [type |-> "frame"]

ClickEvent(event) ==
  [type |-> "click", clientX |-> event.clientX, clientY |-> event.clientY]

\* no click before the last one; no ray table
NoClick == [none |-> TRUE]

NoHistory == prevClick = NoClick /\ rayOf = <<>>

---------------------------------------------------------------------------
(* Inputs of the model                                                     *)

\* the info panel as the page's markup leaves it: hidden, no text
InitPanel ==
  /\ panelVisible = FALSE
  /\ detailName = ""
  /\ detailDesc = ""
  /\ detailSpecs = ""

\* the sizes the window takes: a landscape and a portrait one
DefaultViewport == [innerWidth |-> 800, innerHeight |-> 600]

Viewports == {DefaultViewport, [innerWidth |-> 400, innerHeight |-> 800]}

\* the click at the centre of the default viewport
CentreClick == [clientX |-> 400, clientY |-> 300]

\* the clicks of SpecPage: the top left corner, the centre and the bottom
\* right corner of the default viewport, and a point near its centre.  The
\* last two lie outside the portrait viewport, to the right of it.
ClickEvents ==
  {[clientX |-> 0, clientY |-> 0], CentreClick,
   [clientX |-> 800, clientY |-> 600], [clientX |-> 450, clientY |-> 306]}

\* the meshes the rays of Spec go through: one of every kind of the scene
ClickTargets ==
  {"kettle", "kettleLid", "floor",
   "window.mainFrame", "window.pane", "windowComponent",
   "island.islandCounter", "tableComponent"}

\* the meshes the rays of SpecPage go through: two that carry different
\* tags; the ray that meets nothing is the miss
PageTargets == {"counterBack", "kettle"}

\* the meshes the rays of SpecTwoClicks go through
TwoClickTargets == {"kettle", "floor"}

\* the script has been evaluated, window.onload has not run yet
BeforeLoad ==
  /\ size = [width |-> window.innerWidth, height |-> window.innerHeight]
  /\ scene = Undefined
  /\ camera = Undefined
  /\ renderer = Undefined
  /\ mouse = Undefined
  /\ frames = 0
  /\ lastFrame = Undefined
  /\ lastEvent = [type |-> "none"]
  /\ InitPanel
  /\ rayHits = <<>>
  /\ picked = NoPick
  /\ details = Undefined
  /\ args = Undefined
  /\ mesh = NoPick
  /\ NoHistory
  /\ pc = "loading"

\* the camera, renderer and render loop as window.onload leaves them in the
\* default viewport
LoadedView ==
  /\ window = DefaultViewport
  /\ size = [width |-> window.innerWidth, height |-> window.innerHeight]
  /\ camera = Frustum(Aspect(size.width, size.height))
  /\ renderer = SetSize(size.width, size.height)
  /\ mouse = Vector2
  /\ frames = 1
  /\ lastFrame = Rendered(camera, renderer)
  /\ lastEvent = LoadEvent

\* the page as window.onload leaves it in the default viewport
Loaded ==
  /\ scene = BuiltScene
  /\ InitPanel
  /\ LoadedView

---------------------------------------------------------------------------
(* Specification Spec: the page in the default viewport, from before       *)
(* window.onload on, handling clicks on the built scene.  The clicks land  *)
(* at the centre of the viewport; what the ray meets is free, as the pose  *)
(* of the camera is (OrbitControls moves it between clicks).               *)

Init ==
  /\ window = DefaultViewport
  /\ BeforeLoad

\* window.onload, lines 1082-1085: init(), then animate()
OnLoad_AnimateFirst ==
  /\ pc = "loading"
  /\ frames' = frames + 1
  /\ lastFrame' = Rendered(camera, renderer)
  /\ init
  /\ lastEvent' = LoadEvent
  /\ pc' = "idle"
  /\ UNCHANGED <<rayHits, picked, call, window, size, prevClick, rayOf>>

OnLoad ==
  /\ pc = "loading"
  /\ init
  /\ animate(frames)
  /\ lastEvent' = LoadEvent
  /\ pc' = "idle"
  /\ UNCHANGED <<rayHits, picked, call, window, size, prevClick, rayOf>>

Click ==
  /\ pc = "idle"
  /\ \E list \in RankedRayCasts(ClickTargets, MaxClickHits) :
       /\ rayHits' = list
       /\ onMouseClick(CentreClick, list)
       /\ lastEvent' = ClickEvent(CentreClick)
  /\ UNCHANGED <<call, window, size, view, prevClick, rayOf, pc>>

Next == OnLoad \/ Click

Spec == Init /\ [][Next]_vars

---------------------------------------------------------------------------
(* Specification SpecPage: the page from before window.onload on, handling *)
(* clicks, resizes and animation frames.                                   *)

InitPage ==
  /\ window \in Viewports
  /\ BeforeLoad

\* the host gives the window another size; once init has registered the
\* listener (line 96), onWindowResize runs
WindowResize_HidesPanel ==
  /\ \E win \in Viewports :
       /\ win # window
       /\ window' = win
       /\ IF pc = "idle"
            THEN onWindowResize(win) /\ lastEvent' = ResizeEvent
                 /\ hideComponentInfo
            ELSE UNCHANGED <<camera, renderer, lastEvent, panel>>
  /\ UNCHANGED <<scene, rayHits, picked, call, size, mouse, frames,
                 lastFrame, prevClick, rayOf, pc>>

WindowResize ==
  /\ \E win \in Viewports :
       /\ win # window
       /\ window' = win
       /\ IF pc = "idle"
            THEN onWindowResize(win) /\ lastEvent' = ResizeEvent
            ELSE UNCHANGED <<camera, renderer, lastEvent>>
  /\ UNCHANGED <<scene, panel, rayHits, picked, call, size, mouse, frames,
                 lastFrame, prevClick, rayOf, pc>>

\* the host runs the pending animation-frame callback
AnimationFrame ==
  /\ pc = "idle"
  /\ frames > 0
  /\ UNCHANGED <<camera, renderer>>
  /\ animate(frames - 1)
  /\ lastEvent' = FrameEvent
  /\ UNCHANGED <<scene, panel, rayHits, picked, call, window, size, mouse,
                 prevClick, rayOf, pc>>

PageClick ==
  /\ pc = "idle"
  /\ \E event \in ClickEvents, list \in RankedRayCasts(PageTargets, MaxSceneHits) :
       /\ rayHits' = list
       /\ onMouseClick(event, list)
       /\ lastEvent' = ClickEvent(event)
  /\ UNCHANGED <<call, window, size, view, prevClick, rayOf, pc>>

NextPage == OnLoad \/ PageClick \/ WindowResize \/ AnimationFrame

SpecPage == InitPage /\ [][NextPage]_vars

\* the page with its scheduling: the host fires the load event, and runs an
\* animation-frame callback that has been requested
SpecLoop ==
  InitPage /\ [][NextPage]_vars /\ WF_vars(OnLoad) /\ WF_vars(AnimationFrame)

---------------------------------------------------------------------------
(* Specification SpecScene: one click on the built scene, its ray drawn    *)
(* over all the meshes of the scene.                                       *)

InitScene ==
  /\ Loaded
  /\ rayHits \in RankedRayCasts(Meshes(BuiltScene), MaxSceneHits)
  /\ picked = NoPick
  /\ details = Undefined
  /\ args = Undefined
  /\ mesh = NoPick
  /\ NoHistory
  /\ pc = "cast"

ClickOnce ==
  /\ pc = "cast"
  /\ onMouseClick(CentreClick, rayHits)
  /\ lastEvent' = ClickEvent(CentreClick)
  /\ pc' = "resolved"
  /\ UNCHANGED <<rayHits, call, window, size, view, prevClick, rayOf>>

NextScene == ClickOnce

SpecScene == InitScene /\ [][NextScene]_vars

---------------------------------------------------------------------------
(* Specification SpecPick: one click on an arbitrary small tree.           *)

NodeId(i) == IF i = 0 THEN "scene" ELSE "n" \o ToString(i)

\* the trees of MaxNodes meshes below the root: every mesh hangs below the
\* root or below an earlier mesh, and is tagged by createComponent or not
SmallTrees ==
  {TreeOf({Object3D("scene")} \cup
          {Add(NodeId(parents[i]),
               IF i \in tagged
                 THEN createComponent(NodeId(i), Str(NodeId(i)), Undefined)
                 ELSE Mesh(NodeId(i))) : i \in 1..MaxNodes}) :
     parents \in {p \in [1..MaxNodes -> 0..(MaxNodes - 1)] :
                    \A i \in 1..MaxNodes : p[i] < i},
     tagged \in SUBSET (1..MaxNodes)}

\* the panel before the click: as the page starts, or showing the tag of
\* the tree's first mesh, which an earlier click resolved to
ShowingPanel(data) ==
  /\ panelVisible = TRUE
  /\ detailName = DisplayedText(data).name
  /\ detailDesc = DisplayedText(data).desc
  /\ detailSpecs = DisplayedText(data).specs

InitPick ==
  /\ scene \in SmallTrees
  /\ \/ InitPanel
     \/ IsComponent(scene, NodeId(1)) /\ ShowingPanel(scene.userData[NodeId(1)])
  /\ LoadedView
  /\ rayHits \in RayCasts(Meshes(scene), MaxHits, MaxDist)
  /\ picked = NoPick
  /\ details = Undefined
  /\ args = Undefined
  /\ mesh = NoPick
  /\ NoHistory
  /\ pc = "cast"

NextPick == ClickOnce

SpecPick == InitPick /\ [][NextPick]_vars

---------------------------------------------------------------------------
(* Specification SpecComponent: one call of createComponent.               *)

\* a property of the payload: left out, null, or a string
Fields == {Undefined, Null} \cup {Str(s) : s \in Strings}

\* the details argument: undefined, null or an object
DetailsPayloads ==
  {Undefined, Null} \cup
  {Payload(description, desc, specs) :
     description \in Fields, desc \in Fields, specs \in Fields}

\* the geometry, position and name arguments
Arguments ==
  [geometry : {Object, Undefined, Null},
   position : {Object, Undefined, Null},
   name : {Str("Kettle"), Str(""), Undefined}]

InitComponent ==
  /\ Loaded
  /\ rayHits = <<>>
  /\ picked = NoPick
  /\ details \in DetailsPayloads
  /\ args \in Arguments
  /\ mesh = NoPick
  /\ NoHistory
  /\ pc = "call"

CreateComponent ==
  /\ pc = "call"
  /\ mesh' = createComponentCall(args, details)
  /\ pc' = IF mesh' = Threw THEN "threw" ELSE "returned"
  /\ UNCHANGED <<scene, panel, rayHits, picked, details, args, window, size,
                 view, mouse, lastEvent, prevClick, rayOf>>

NextComponent == CreateComponent

SpecComponent == InitComponent /\ [][NextComponent]_vars

---------------------------------------------------------------------------
(* Specification SpecDisplay: one click on a mesh whose userData has       *)
(* isComponent true and any of the other properties left out, null, empty  *)
(* or set.                                                                 *)

\* the userData objects displayComponentInfo is given
DisplayTags ==
  [isComponent : {Bool(TRUE)}, name : Fields, details : Fields, specs : Fields]

\* the scene with one mesh that carries the userData
TaggedMesh(data) ==
  TreeOf({Object3D("scene"),
          SceneAdd([Mesh("mesh") EXCEPT !.userData = data])})

InitDisplay ==
  /\ scene \in {TaggedMesh(data) : data \in DisplayTags}
  /\ InitPanel \/ ShowingPanel(BuiltScene.userData["toaster"])
  /\ LoadedView
  /\ rayHits = <<[distance |-> 1, object |-> "mesh"]>>
  /\ picked = NoPick
  /\ details = Undefined
  /\ args = Undefined
  /\ mesh = NoPick
  /\ NoHistory
  /\ pc = "cast"

NextDisplay == ClickOnce

SpecDisplay == InitDisplay /\ [][NextDisplay]_vars

---------------------------------------------------------------------------
(* Specification SpecTwoClicks: two clicks in a row on the built scene,    *)
(* the camera, the window and the scene being what they are throughout.    *)
(* Raycaster.intersectObjects computes its result from the ray and the     *)
(* scene alone, so each point of the viewport has its list of              *)
(* intersections: rayOf.                                                   *)

\* the points the rays go through
RayPoints == {MouseNDC(event, DefaultViewport) : event \in ClickEvents}

\* what a click leaves behind for the next one to be compared with
ClickRecord ==
  [event |-> lastEvent, picked |-> picked, panelVisible |-> panelVisible,
   detailName |-> detailName, detailDesc |-> detailDesc,
   detailSpecs |-> detailSpecs]

InitTwoClicks ==
  /\ scene = BuiltScene
  /\ InitPanel \/ ShowingPanel(BuiltScene.userData["toaster"])
  /\ LoadedView
  /\ rayOf \in [RayPoints -> RankedRayCasts(TwoClickTargets, MaxSceneHits)]
  /\ rayHits = <<>>
  /\ picked = NoPick
  /\ details = Undefined
  /\ args = Undefined
  /\ mesh = NoPick
  /\ prevClick = NoClick
  /\ pc = "first"

ClickInTurn ==
  /\ pc \in {"first", "second"}
  /\ \E event \in ClickEvents :
       /\ rayHits' = rayOf[RayPoint(event, window)]
       /\ onMouseClick(event, rayHits')
       /\ lastEvent' = ClickEvent(event)
  /\ prevClick' = ClickRecord
  /\ pc' = IF pc = "first" THEN "second" ELSE "done"
  /\ UNCHANGED <<call, window, size, view, rayOf>>

NextTwoClicks == ClickInTurn

SpecTwoClicks == InitTwoClicks /\ [][NextTwoClicks]_vars

---------------------------------------------------------------------------
(* Properties.  The predicates below speak of the tree and of the last     *)
(* click in the claims' own terms.                                         *)

\* the node carries a Component Tag
Tagged(n) == scene.userData[n].isComponent = Bool(TRUE)

ParentOf(n) == scene.parent[n]

\* the node's immediate parent carries a Component Tag
ParentTagged(n) == ParentOf(n) # NoParent /\ Tagged(ParentOf(n))

\* the node or its immediate parent carries a Component Tag
OneLevel(n) == Tagged(n) \/ ParentTagged(n)

\* a purely decorative mesh: untagged, below an untagged parent
Decorative(n) == ~Tagged(n) /\ ~ParentTagged(n)

\* untagged, below an untagged parent, below a tagged grandparent
GrandchildOfTag(n) ==
  /\ Decorative(n)
  /\ ParentOf(n) # NoParent
  /\ ParentOf(ParentOf(n)) # NoParent
  /\ Tagged(ParentOf(ParentOf(n)))

\* the tag an intersection with the node supplies
TagVia(n) == IF Tagged(n) THEN scene.userData[n] ELSE scene.userData[ParentOf(n)]

\* the click of SpecPick and SpecScene has been handled
Resolved == pc = "resolved"

\* the ray of the last click struck something; Struck is the nearest node
HasHit == rayHits # <<>>

Struck == rayHits[1].object

HitIndices == 1..Len(rayHits)

KettleTag ==
  [isComponent |-> Bool(TRUE), name |-> Str("Kettle"),
   details |-> Str("Electric kettle."), specs |-> Str("Color: Blue")]

\* C1: whenever the last click resolved to a tag T, the info panel is
\* visible and shows T.name, T.details and "Specifications: " + T.specs.
C1_ShowsResolvedTag ==
  picked # NoPick =>
    /\ panelVisible
    /\ detailName = picked.name.v
    /\ detailDesc = picked.details.v
    /\ detailSpecs = "Specifications: " \o picked.specs.v

\* the kettle is the nearest of two intersections and is what is shown
C1_Witness ==
  /\ Len(rayHits) = 2
  /\ Struck = "kettle"
  /\ picked = KettleTag
  /\ panelVisible
  /\ detailName = "Kettle"
  /\ detailDesc = "Electric kettle."
  /\ detailSpecs = "Specifications: Color: Blue"

\* C2: a click whose ray intersects no node resolves to none and leaves the
\* panel hidden, whatever was selected before.
C2_MissShowsNothing ==
  rayHits = <<>> => picked = NoPick /\ ~panelVisible

\* an empty ray after the kettle was shown: the hidden panel still holds
\* the kettle's texts
C2_Witness ==
  /\ rayHits = <<>>
  /\ picked = NoPick
  /\ ~panelVisible
  /\ detailName = "Kettle"

\* C3: a click whose nearest intersection is with a tagged node resolves to
\* that node's own tag, also when the node's parent is tagged.
C3_OwnTagWins ==
  Resolved /\ HasHit /\ Tagged(Struck) => picked = scene.userData[Struck]

\* a tagged node below a tagged parent is struck; its own tag is resolved
C3_Witness ==
  /\ Resolved /\ HasHit
  /\ Tagged(Struck) /\ ParentTagged(Struck)
  /\ picked = scene.userData[Struck]
  /\ picked # scene.userData[ParentOf(Struck)]

\* C4: a click whose nearest intersection is with an untagged node below a
\* tagged parent resolves to the parent's tag.
C4_ParentTag ==
  Resolved /\ HasHit /\ ~Tagged(Struck) /\ ParentTagged(Struck)
    => picked = scene.userData[ParentOf(Struck)]

C4_Witness ==
  /\ Resolved /\ HasHit
  /\ ~Tagged(Struck) /\ ParentTagged(Struck)
  /\ Len(rayHits) = 2 /\ Tagged(rayHits[2].object)
  /\ picked = scene.userData[ParentOf(Struck)]
  /\ picked # scene.userData[rayHits[2].object]

SurvivingHits == {j \in HitIndices : OneLevel(rayHits[j].object)}

\* C6: the resolved tag is the tag of a surviving intersection (struck node
\* tagged, or its parent tagged) than which no surviving intersection lies
\* nearer; nearer intersections that do not survive are skipped, so the pick
\* is none only when nothing survives.
C6_NearestSurvivor ==
  Resolved =>
    IF SurvivingHits = {}
      THEN picked = NoPick
      ELSE \E i \in SurvivingHits :
             /\ picked = TagVia(rayHits[i].object)
             /\ \A j \in SurvivingHits : rayHits[i].distance <= rayHits[j].distance

\* a decorative mesh lies nearer than the tagged mesh that is resolved
C6_Witness ==
  /\ Resolved
  /\ Len(rayHits) = 2
  /\ ~OneLevel(Struck)
  /\ OneLevel(rayHits[2].object)
  /\ rayHits[1].distance < rayHits[2].distance
  /\ picked = TagVia(rayHits[2].object)
  /\ panelVisible

\* C7 as stated: a click whose ray strikes a purely decorative mesh resolves
\* to none and hides the panel, whatever else lies along the ray.
C7_DecorativeYieldsNone ==
  Resolved /\ (\E j \in HitIndices : Decorative(rayHits[j].object))
    => picked = NoPick /\ ~panelVisible

\* C7 as amended: a click whose ray strikes purely decorative meshes only
\* resolves to none and hides the panel.
C7_OnlyDecorativeYieldsNone ==
  Resolved /\ HasHit /\ (\A j \in HitIndices : Decorative(rayHits[j].object))
    => picked = NoPick /\ ~panelVisible

\* two decorative meshes are struck while a tag was shown: the panel is
\* hidden and keeps the texts of that tag
C7_Witness ==
  /\ Resolved
  /\ Len(rayHits) = 2
  /\ \A j \in HitIndices : Decorative(rayHits[j].object)
  /\ picked = NoPick
  /\ ~panelVisible
  /\ detailName # ""

\* C8: no intersection with an invisible node is used by pick resolution: a
\* click whose ray strikes invisible nodes only resolves to none.
C8_InvisibleNeverPicked ==
  Resolved /\ HasHit /\ (\A j \in HitIndices : ~scene.visible[rayHits[j].object])
    => picked = NoPick

\* the compound objects of the built scene and their tag-holders
TagHolders ==
  {<<"window", "windowComponent">>, <<"purifier", "purifierComponent">>,
   <<"island", "islandComponent">>, <<"diningTable", "tableComponent">>}
    \cup {<<g, g \o "Component">> : g \in BarStools \cup DiningChairs}

\* C9: every compound object's group carries the tag of its invisible
\* tag-holder, and a click whose nearest intersection is with a visible
\* untagged mesh directly below such a group resolves to the group's tag.
C9_GroupBorrowsTag ==
  /\ \A gh \in TagHolders :
       /\ Tagged(gh[1])
       /\ scene.userData[gh[1]] = scene.userData[gh[2]]
       /\ ~scene.visible[gh[2]]
  /\ Resolved /\ HasHit
       /\ (\E gh \in TagHolders : ParentOf(Struck) = gh[1])
       /\ scene.visible[Struck] /\ ~Tagged(Struck)
     => picked = scene.userData[ParentOf(Struck)]

\* the seat of a bar stool is struck and the stool's tag is shown
C9_Witness ==
  /\ Resolved /\ HasHit
  /\ Struck = "barStool1.seat"
  /\ picked = scene.userData["barStool1Component"]
  /\ panelVisible
  /\ detailName = "Bar Stool"

\* C10: the tag's details is details.description when that is not null or
\* undefined (also when it is the empty string), else details.desc when
\* that is not null or undefined, else the empty string.
C10_DetailsField ==
  pc = "returned" =>
    mesh.details =
      IF details.t = "object" /\ details.description.t \notin {"undefined", "null"}
        THEN details.description
        ELSE IF details.t = "object" /\ details.desc.t \notin {"undefined", "null"}
               THEN details.desc
               ELSE Str("")

\* description is the empty string and desc is not: details is ""
C10_Witness ==
  /\ pc = "returned"
  /\ details.t = "object"
  /\ details.description = Str("")
  /\ details.desc = Str("Electric kettle.")
  /\ mesh.details = Str("")

\* the call of SpecComponent has ended
Ended == pc \in {"returned", "threw"}

\* the specs the payload supplies, the empty string when the payload or
\* its specs is missing (undefined or null)
SuppliedSpecs ==
  IF details.t = "object" /\ details.specs.t = "string"
    THEN details.specs
    ELSE Str("")

\* the tag createComponent is to attach for the call's name and payload
TagAttached ==
  /\ mesh.isComponent = Bool(TRUE)
  /\ mesh.name = args.name
  /\ mesh.specs = SuppliedSpecs

BothHandled == pc = "done"

\* the texts of the panel
Texts == <<detailName, detailDesc, detailSpecs>>

\* C12: two consecutive clicks that resolve to the same tag T leave the
\* panel visible after each of them, with the same name, description and
\* specs line after the second click as after the first.
C12_SameTagTwice ==
  BothHandled /\ picked # NoPick /\ prevClick.picked = picked =>
    /\ prevClick.panelVisible
    /\ panelVisible
    /\ Texts = <<prevClick.detailName, prevClick.detailDesc, prevClick.detailSpecs>>
    /\ Texts = <<picked.name.v, picked.details.v,
                 "Specifications: " \o picked.specs.v>>

\* the kettle is clicked twice, at two points of the viewport
C12_Witness ==
  /\ BothHandled
  /\ prevClick.picked = KettleTag
  /\ picked = KettleTag
  /\ prevClick.event # lastEvent
  /\ panelVisible
  /\ detailName = "Kettle"

\* init has run: the scene is built and the listeners are registered
Idle == pc = "idle"

\* the texts displayComponentInfo writes for a tag
TextsOf(tag) ==
  <<tag.name.v, tag.details.v, "Specifications: " \o tag.specs.v>>

\* C13: after any sequence of clicks the selection state is what the most
\* recent click alone decides: Empty when none of its intersections
\* survives the filter, else Showing the tag of its nearest surviving
\* intersection; nothing of an earlier click is shown.
C13_LastClickDecides ==
  Idle =>
    IF SurvivingHits = {}
      THEN ~panelVisible
      ELSE /\ panelVisible
           /\ \E i \in SurvivingHits :
                /\ \A j \in SurvivingHits : i <= j
                /\ Texts = TextsOf(TagVia(rayHits[i].object))

\* the dining table was shown by an earlier click (the hidden panel still
\* holds its texts); the last click struck decorative meshes only, and the
\* selection is Empty
C13_Witness ==
  /\ Idle
  /\ rayHits = <<[distance |-> 1, object |-> "kettleLid"],
                 [distance |-> 2, object |-> "floor"]>>
  /\ SurvivingHits = {}
  /\ ~panelVisible
  /\ detailName = "Dining Table"

\* C14: two clicks with the same screen coordinates, the viewport, the
\* camera and the scene tree being the same, resolve to the same tag or both
\* to none, whatever the panel showed and whatever was clicked before.
C14_SameClickSameTag ==
  BothHandled /\ prevClick.event = lastEvent => picked = prevClick.picked

\* the top left corner is clicked twice and the kettle is resolved twice;
\* before the first click the mouse vector held the centre
C14_Witness ==
  /\ BothHandled
  /\ lastEvent = ClickEvent([clientX |-> 0, clientY |-> 0])
  /\ prevClick.event = lastEvent
  /\ mouse = [x |-> Num(-1), y |-> Num(1)]
  /\ picked = KettleTag
  /\ prevClick.picked = KettleTag
  /\ rayOf[Vector2] = <<>>

\* C15: handling a click leaves the scene tree as it is: the same nodes,
\* and for every node the same parent, visibility flag and tag, whether the
\* click resolves to a tag or to none.
C15_ClickKeepsTree ==
  [][/\ scene'.nodes = scene.nodes
     /\ scene'.parent = scene.parent
     /\ scene'.visible = scene.visible
     /\ scene'.userData = scene.userData]_vars

\* a click resolved to the tag of the struck node's parent; the struck node
\* is still untagged and the tree is still one of those that were built
C15_Witness ==
  /\ Resolved /\ HasHit
  /\ picked # NoPick
  /\ ~Tagged(Struck) /\ ParentTagged(Struck)
  /\ picked = scene.userData[ParentOf(Struck)]
  /\ scene \in SmallTrees

\* no click has been handled yet
NoClickYet == lastEvent.type \in {"none", "load"}

\* C16: the selection state starts Empty: before window.onload, and after
\* init() has completed and before any click has been handled, the info
\* panel is not visible and no tag is resolved.
C16_StartsEmpty ==
  NoClickYet => ~panelVisible /\ picked = NoPick

\* init() and the first animate() have run, no click yet: the scene is
\* built, the panel is hidden
C16_Witness ==
  /\ Idle
  /\ lastEvent = LoadEvent
  /\ scene = BuiltScene
  /\ frames = 1
  /\ ~panelVisible
  /\ picked = NoPick

\* the last handler was onMouseClick
AfterClick == Idle /\ lastEvent.type = "click"

\* a point outside [-1,1] on either axis
OutsideNDC(p) ==
  \/ Less(p.x, Num(-1)) \/ Less(Num(1), p.x)
  \/ Less(p.y, Num(-1)) \/ Less(Num(1), p.y)

\* C17: a click whose normalized device coordinates fall outside [-1,1] on
\* either axis hits no geometry, resolves to none and leaves the panel
\* hidden.
C17_OutsideViewportMisses ==
  AfterClick /\ OutsideNDC(mouse) =>
    rayHits = <<>> /\ picked = NoPick /\ ~panelVisible

\* C18: once init() has completed, no click, resize or animation frame
\* changes the contents of a node's tag, changes which nodes are tagged, or
\* creates or destroys a node.
C18_TagsFixedAfterInit ==
  [][Idle =>
       /\ scene'.nodes = scene.nodes
       /\ scene'.userData = scene.userData
       /\ {n \in scene'.nodes : IsComponent(scene', n)}
            = {n \in scene.nodes : IsComponent(scene, n)}]_vars

\* a click has shown the back countertop, the window has been resized and
\* a frame has been rendered since: the countertop still carries its tag and
\* the island its tag-holder's
C18_Witness ==
  /\ Idle
  /\ lastEvent = FrameEvent
  /\ renderer # SetSize(size.width, size.height)
  /\ lastFrame = Rendered(camera, renderer)
  /\ panelVisible /\ detailName = "Back Countertop (Granite)"
  /\ scene.userData["counterBack"] = picked
  /\ scene.userData["island"] = scene.userData["islandComponent"]
  /\ Tagged("island")

\* the node carries no Component Tag: its userData has no property
Untagged(n) == scene.userData[n] = EmptyUserData

\* the node carries a whole Component Tag
WholeTag(n) ==
  /\ scene.userData[n].isComponent = Bool(TRUE)
  /\ scene.userData[n].name.t = "string"
  /\ scene.userData[n].details.t = "string"
  /\ scene.userData[n].specs.t = "string"

\* C19: in every state after init(), every node of the scene tree either
\* carries no Component Tag or carries a tag with isComponent = true and
\* name, details and specs; no node carries a tag with isComponent = false,
\* the groups that borrow a tag-holder's tag included.
C19_NoTagOrWholeTag ==
  Idle =>
    /\ \A n \in scene.nodes : Untagged(n) \/ WholeTag(n)
    /\ \A n \in scene.nodes : scene.userData[n].isComponent # Bool(FALSE)
    /\ \A gh \in TagHolders : WholeTag(gh[1])

\* after a click that showed the back countertop: the dining table's group
\* carries a whole tag, its top and the floor carry none
C19_Witness ==
  /\ AfterClick
  /\ picked # NoPick
  /\ WholeTag("diningTable")
  /\ scene.userData["diningTable"].name = Str("Dining Table")
  /\ ~scene.isMesh["diningTable"]
  /\ Untagged("diningTable.tableTop")
  /\ Untagged("floor")

\* the number a / b equals the quotient n / d of integers, d > 0
Equals(q, n, d) == q.n * d = n * q.d

\* C20: after a click at (clientX, clientY) in a window of W x H at the
\* time of the click, mouse.x = 2 * clientX / W - 1 and
\* mouse.y = 1 - 2 * clientY / H: the left edge maps to -1, the right edge
\* to +1, the top edge to +1 and the bottom edge to -1.
C20_ScreenToNDC ==
  AfterClick =>
    LET W == window.innerWidth
        H == window.innerHeight
    IN /\ Equals(mouse.x, 2 * lastEvent.clientX - W, W)
       /\ Equals(mouse.y, H - 2 * lastEvent.clientY, H)
       /\ lastEvent.clientX = 0 => mouse.x = Num(-1)
       /\ lastEvent.clientX = W => mouse.x = Num(1)
       /\ lastEvent.clientY = 0 => mouse.y = Num(1)
       /\ lastEvent.clientY = H => mouse.y = Num(-1)

\* the page was loaded at 800 x 600 and resized to 400 x 800; a click at
\* (400, 300) lies on the right edge, a quarter above the middle
C20_Witness ==
  /\ AfterClick
  /\ size = [width |-> 800, height |-> 600]
  /\ window = [innerWidth |-> 400, innerHeight |-> 800]
  /\ lastEvent = ClickEvent(CentreClick)
  /\ mouse = [x |-> Num(1), y |-> Frac(1, 4)]

\* the last handler was onWindowResize
AfterResize == Idle /\ lastEvent = ResizeEvent

\* C21: after every resize event with new viewport dimensions W x H,
\* camera.left = -camera.right = -halfFrustum * W / H and
\* camera.top = -camera.bottom = halfFrustum (8), so the vertical extent is
\* frustumSize (16), and the renderer size is (W, H).
C21_ResizeFrustum ==
  AfterResize =>
    LET W == window.innerWidth
        H == window.innerHeight
    IN /\ camera.left = Minus(camera.right)
       /\ Equals(camera.left, -halfFrustum * W, H)
       /\ camera.top = Minus(camera.bottom)
       /\ camera.top = Num(halfFrustum)
       /\ camera.top = Num(8)
       /\ Plus(camera.top, Minus(camera.bottom)) = Num(frustumSize)
       /\ renderer = [width |-> W, height |-> H]

\* the page was loaded at 800 x 600 and has just been resized to 400 x 800:
\* the frustum is 8 wide and 16 high
C21_Witness ==
  /\ AfterResize
  /\ size = [width |-> 800, height |-> 600]
  /\ window = [innerWidth |-> 400, innerHeight |-> 800]
  /\ camera = [left |-> Num(-4), right |-> Num(4),
               top |-> Num(8), bottom |-> Num(-8)]
  /\ renderer = [width |-> 400, height |-> 800]

\* the last handler was animate, run as animation-frame callback
AfterFrame == Idle /\ lastEvent = FrameEvent

\* the frustum and the renderer size computed from the window's dimensions
ViewOf(win) ==
  Rendered(Frustum(Aspect(win.innerWidth, win.innerHeight)),
           SetSize(win.innerWidth, win.innerHeight))

\* C22: a resize is applied atomically with respect to rendering: every
\* frame rendered after a resize event has been delivered observes the four
\* frustum bounds and the renderer size computed from that resize's
\* dimensions, and no render observes a partially updated frustum or a
\* frustum whose aspect differs from the renderer size.
C22_ResizeAtomic ==
  /\ [](lastFrame # Undefined =>
          lastFrame.camera = Frustum(Aspect(lastFrame.renderer.width,
                                            lastFrame.renderer.height)))
  /\ [](AfterResize => [](AfterFrame => lastFrame = ViewOf(window)))

\* the page was loaded at 800 x 600 and resized to 400 x 800, and a frame
\* has been rendered since: it was drawn 400 x 800 with the frustum 8 wide
C22_Witness ==
  /\ AfterFrame
  /\ size = [width |-> 800, height |-> 600]
  /\ window = [innerWidth |-> 400, innerHeight |-> 800]
  /\ lastFrame.renderer = [width |-> 400, height |-> 800]
  /\ lastFrame.camera.left = Num(-4)
  /\ lastFrame.camera.right = Num(4)
  /\ lastFrame.camera.top = Num(8)
  /\ lastFrame.camera.bottom = Num(-8)

\* the tags the nodes of the scene carry
SceneTags == {scene.userData[n] : n \in {m \in scene.nodes : Tagged(m)}}

\* C23: in every state between handler executions, frame renders included,
\* in which the info panel is visible, the displayed name, description and
\* specs line all derive from one single tag, the tag the most recent click
\* resolved to; the panel never shows fields of two different tags.
C23_OneTagShown ==
  Idle /\ panelVisible =>
    /\ picked \in SceneTags
    /\ Texts = TextsOf(picked)
    /\ \A tag \in SceneTags : tag # picked => Texts # TextsOf(tag)

\* a frame has been rendered in the resized window after a click on the
\* kettle: the panel shows the kettle's three texts and nothing of the back
\* countertop's
C23_Witness ==
  /\ AfterFrame
  /\ window # DefaultViewport
  /\ panelVisible
  /\ picked = KettleTag
  /\ detailName = "Kettle"
  /\ Texts = TextsOf(scene.userData["kettle"])
  /\ detailDesc # scene.userData["counterBack"].details.v

\* C24: a click that resolves to none only hides the panel:
\* hideComponentInfo removes the 'visible' marker and leaves the name,
\* description and specs texts unchanged, so after Showing(T) followed by a
\* none-click the hidden panel still holds T's three texts.
C24_NoneClickOnlyHides ==
  [][lastEvent'.type = "click" /\ picked' = NoPick =>
       /\ ~panelVisible'
       /\ Texts' = Texts
       /\ panelVisible /\ picked # NoPick => Texts' = TextsOf(picked)]_vars

\* the first click showed the kettle, the second met nothing: the panel is
\* hidden and still holds the kettle's texts
C24_Witness ==
  /\ BothHandled
  /\ prevClick.picked = KettleTag
  /\ prevClick.panelVisible
  /\ rayHits = <<>>
  /\ picked = NoPick
  /\ ~panelVisible
  /\ Texts = TextsOf(KettleTag)
  /\ Texts = <<"Kettle", detailDesc, detailSpecs>>

\* the click of SpecDisplay has been handled
Shown == pc = "resolved" /\ "mesh" \in scene.nodes

\* the property is left out or holds the empty string
EmptyOrMissing(x) == x = Undefined \/ x = Str("")

\* C25: display fallbacks of displayComponentInfo: a name that is empty or
\* missing is shown as "Component", never as an empty title; details that
\* are empty or missing are shown as ""; specs that are empty or missing
\* give the line "Specifications: "; displaying does not fail for a tag
\* with missing fields.
C25_DisplayFallbacks ==
  Shown =>
    LET data == scene.userData["mesh"]
    IN /\ picked = data
       /\ panelVisible
       /\ detailName # ""
       /\ EmptyOrMissing(data.name) => detailName = "Component"
       /\ EmptyOrMissing(data.details) => detailDesc = ""
       /\ EmptyOrMissing(data.specs) => detailSpecs = "Specifications: "
       /\ data.name.t = "string" /\ data.name.v # "" => detailName = data.name.v

\* a mesh whose userData has no name and no specs and empty details has
\* been clicked
C25_Witness ==
  /\ Shown
  /\ scene.userData["mesh"] =
       [isComponent |-> Bool(TRUE), name |-> Undefined,
        details |-> Str(""), specs |-> Undefined]
  /\ panelVisible
  /\ Texts = <<"Component", "", "Specifications: ">>

\* window.onload has not run yet
Loading == pc = "loading"

\* the events of the listeners of lines 95-96 and of the render loop
Handled == {"click", "resize", "frame"}

\* C26: the click and resize listeners are registered at the end of init(),
\* after buildKitchenette() and the creation of the camera, and animate()
\* starts after init() returns: no click or resize is handled and no frame
\* is rendered against a partially constructed scene or an uninitialised
\* camera.
C26_StartupOrder ==
  /\ [](Loading =>
          /\ lastEvent.type = "none"
          /\ frames = 0
          /\ lastFrame = Undefined
          /\ picked = NoPick
          /\ mouse = Undefined)
  /\ [](lastFrame # Undefined =>
          /\ lastFrame.camera # Undefined
          /\ lastFrame.renderer # Undefined)
  /\ [][lastEvent'.type \in Handled =>
          /\ Idle
          /\ scene = BuiltScene
          /\ camera # Undefined
          /\ renderer # Undefined
          /\ mouse # Undefined
          /\ scene' = BuiltScene]_vars

\* the window got another size while the page was loading: no handler ran
\* for it, init() built the scene and the camera from the width and height
\* read at lines 5-6, and the first frame was rendered from them
C26_Witness ==
  /\ Idle
  /\ lastEvent = LoadEvent
  /\ window # [innerWidth |-> size.width, innerHeight |-> size.height]
  /\ scene = BuiltScene
  /\ camera = Frustum(Aspect(size.width, size.height))
  /\ frames = 1
  /\ lastFrame = Rendered(camera, renderer)

\* C27: the render loop neither ends nor multiplies: animate() is started
\* once at load and each invocation requests one successor before it
\* renders, so between frames exactly one animation-frame callback is
\* pending, whatever clicks and resizes occur, and frames keep being
\* rendered.
C27_OnePendingFrame ==
  /\ [](Loading => frames = 0)
  /\ [](Idle => frames = 1)
  /\ [][lastEvent'.type \in {"click", "resize"} => frames' = frames]_vars
  /\ [][lastEvent' = FrameEvent => frames = 1 /\ frames' = frames - 1 + 1]_vars
  /\ []<>(lastEvent = FrameEvent)

\* a click that met nothing and a resize have been handled and a frame has
\* been rendered since: one callback is pending
C27_Witness ==
  /\ AfterFrame
  /\ frames = 1
  /\ rayHits = <<>>
  /\ mouse # Vector2
  /\ mouse # Undefined
  /\ renderer # SetSize(size.width, size.height)
  /\ lastFrame = ViewOf(window)

\* the bounds of the frustum and the renderer size
FrustumAndSize == <<camera, renderer>>

\* C28: the handlers touch disjoint state: a resize event leaves the panel's
\* visibility and its three texts unchanged, a click event leaves the
\* frustum bounds and the renderer size unchanged, and an animation frame
\* changes neither the panel nor the frustum bounds.
C28_DisjointState ==
  [][/\ lastEvent' = ResizeEvent => panel' = panel
     /\ lastEvent'.type = "click" => FrustumAndSize' = FrustumAndSize
     /\ lastEvent' = FrameEvent => panel' = panel /\ camera' = camera]_vars

\* the kettle is shown and the window has just been resized away from its
\* size at load: the frustum has changed, the panel has not
C28_Witness ==
  /\ AfterResize
  /\ camera # Frustum(Aspect(size.width, size.height))
  /\ renderer = SetSize(window.innerWidth, window.innerHeight)
  /\ panelVisible
  /\ picked = KettleTag
  /\ Texts = TextsOf(KettleTag)

===========================================================================
